---------------------------- MODULE Spec2Model ----------------------------
(***************************************************************************)
(* A model of survive.py: the frame loop of main() and the sprites it      *)
(* drives (Character, Player, Enemy, BOSS, Bullet, Group_support_camera).  *)
(*                                                                         *)
(* Time is counted in tenths of a second, so every threshold of the source *)
(* (0.1, 0.2, 0.5, 1.0, 2, 3, 5, 60, 250 seconds) is an integer.  One frame *)
(* of the while-loop is cut into steps, one action per block of main(),    *)
(* in the order of the source; pc names the next block.                    *)
(*                                                                         *)
(* Bounding boxes come from image files that are not part of the source,   *)
(* so the result of a collision query (spritecollide, groupcollide) and    *)
(* the outcome of a pursuer's distance test are inputs of the step: any    *)
(* subset of the queried group may overlap.  Only the player's rectangle   *)
(* and the camera are kept as numbers (pixels).                            *)
(***************************************************************************)
EXTENDS Integers, FiniteSets, Sequences, TLC

\* ------------------------------------------------------------------ bounds
MaxFrames == 6
MaxEnemies == 2
MaxBosses == 2
MaxBullets == 3
MaxFlames == 1
MaxMoves == 1
MaxTicks == 53
MidFrames == 2

\* the frame times clock.tick may report, in tenths of a second
DtSet == {20, 300}
\* the key sets pg.key.get_pressed may report
KeySets == {{}, {"w", "d"}}
\* the pointer positions pg.mouse.get_pos may report (the viewport is 1600x900)
MouseSet == {<<800, 450>>, <<1599, 450>>, <<800, 0>>}
\* short frame times, in tenths of a second
TickSet == {1, 2}
\* the camera centres and the sprite positions of the draw runs
CamSet == {<<0, 0>>, <<-800, 1>>, <<801, -450>>, <<37, 4000>>}
PosSet == {<<0, 0>>, <<-5, 37>>, <<1600, 900>>}

\* ------------------------------------------------------- program constants
TicksPerSec == 10
WIDTH == 1600
HEIGHT == 900
PlayerHp == 50
PlayerInvincible == 20
PlayerSpeed == 500
HurtImgTime == 20
OverImgTime == 2500
EnemyHp == 20
EnemyScore == 30
BossHp == 50
BossScore == 40
BossPassScore == 40
ContactDamage == 10
BossPassDamage == 10
BulletDamage == 10
BulletLife == 50
EnemySpawnInterval == 5
BossSpawnInterval == 30
BossAttackInterval == 10
SurviveLimit == 600
AttackInterval0 == 2
AttackInterval1 == 1
Tier1Score == 500
Tier2Score == 1500

\* ------------------------------------------------------------ sprite names
Player == 0
EnemyIds == 1 .. MaxEnemies
BossIds == (MaxEnemies + 1) .. (MaxEnemies + MaxBosses)
BulletIds == 1 .. MaxBullets
FlameIds == (MaxBullets + 1) .. (MaxBullets + MaxFlames)
Characters == {Player} \cup EnemyIds \cup BossIds
Shots == BulletIds \cup FlameIds

VARIABLES
    pc,            \* the block of main() to run next
    phase,         \* "Playing", "GameOver" or "GameClear"
    frame,         \* number of the current frame (model bound only)
    moves,         \* frames in which the keys moved the player (model bound only)
    dtime, suvivetime, clk,
    enemy_spawn_interval_tmr, boss_spawn_interval_tmr,
    key_lst, score,
    chr,           \* Character fields: hp, invincible_tmr, max_invincible_tick, imgs, image
    dire, attack_interval, attack_number,
    rect,          \* rect.center of each sprite whose rectangle is kept
    center_pos,    \* camera.center_pos
    player_group, enemies, boss, bullets, flame,
    life_tmr,      \* Bullet.life_tmr of each shot
    attack_interval_tmr,  \* BOSS._attack_interval_tmr
    todo,          \* the sprites a running Group.update has still to call
    shown,         \* where Group_support_camera.draw last blitted each sprite
    calls,         \* history: give_damage calls on the player made by the last step
    since_damage   \* history: dt of player.update added up since the player's hp
                   \* last fell, counted up to PlayerInvincible

vars == <<pc, phase, frame, moves, dtime, suvivetime, clk,
          enemy_spawn_interval_tmr, boss_spawn_interval_tmr, key_lst, score,
          chr, dire, attack_interval, attack_number, rect, center_pos,
          player_group, enemies, boss, bullets, flame, life_tmr,
          attack_interval_tmr, todo, shown, calls, since_damage>>

\* ---------------------------------------------------------------- helpers
Max(a, b) == IF a >= b THEN a ELSE b

Min(a, b) == IF a <= b THEN a ELSE b

MaxKey(S) == CHOOSE x \in S : \A y \in S : y <= x

MinOf(S) == CHOOSE x \in S : \A y \in S : x <= y

\* int(x) of a float given as p/q: truncation toward zero
Trunc(p, q) == IF p >= 0 THEN p \div q ELSE -((-p) \div q)

\* images are named, not rendered
Img(n, d) == [name |-> n, d |-> d]
NoImage == Img("unset", <<0, 0>>)

\* one entry of Character._imgs: [image, valid_time]; timed = FALSE is valid_time None
Layer(img, timed, t) == [img |-> img, timed |-> timed, t |-> t]

\* Player.delta
delta == [k \in {"w", "s", "a", "d"} |->
            CASE k = "w" -> <<0, -1>>
              [] k = "s" -> <<0, 1>>
              [] k = "a" -> <<-1, 0>>
              [] k = "d" -> <<1, 0>>]

\* Player.move_imgs: one sprite per nonzero direction of {-1,0,1} x {-1,0,1}
move_imgs == [d \in ({-1, 0, 1} \X {-1, 0, 1}) \ {<<0, 0>>} |-> Img("move", d)]

\* lines 96 and 133: the -1 s an invincibility timer starts at and stops at
Recovered == -TicksPerSec

\* Character.__init__
NewCharacter(image, hp, max_invincible_sec) ==
    [hp |-> hp,
     max_invincible_tick |-> max_invincible_sec,
     invincible_tmr |-> Recovered,
     imgs |-> (0 :> Layer(image, FALSE, 0)),
     image |-> NoImage]

\* a slot no sprite has used yet, or whose sprite has left every group
NoCharacter == [hp |-> 0, max_invincible_tick |-> 0, invincible_tmr |-> Recovered,
                imgs |-> (0 :> Layer(NoImage, FALSE, 0)), image |-> NoImage]

\* Character.set_image
set_image(c, image, priority, timed, valid_time) ==
    [c EXCEPT !.imgs = (priority :> Layer(image, timed, valid_time)) @@ @]

\* Player.change_img
change_img(c, num, priority, life) ==
    set_image(c, Img("fig", <<num, 0>>), priority, TRUE, life)

\* a hurt image put on the base layer
damagedAtBase(s, c) == IF s = Player THEN change_img(c, 8, 0, HurtImgTime) ELSE c

\* Character.damaged / Player.damaged
damaged(s, c) == IF s = Player THEN change_img(c, 8, 5, HurtImgTime) ELSE c

\* a give_damage that forgets the invincibility timer
AlwaysVulnerable(c) == TRUE

\* the test of Character.give_damage
Vulnerable(c) == c.invincible_tmr <= 0

\* Character.give_damage, the fields of self (kill is done by the caller's Killed)
give_damage(s, c, damage) ==
    IF Vulnerable(c)
    THEN damaged(s, [c EXCEPT !.hp = @ - damage,
                              !.invincible_tmr = c.max_invincible_tick])
    ELSE c

\* n calls of give_damage in a row
RECURSIVE give_damage_n(_, _, _, _)
give_damage_n(s, c, damage, n) ==
    IF n = 0 THEN c ELSE give_damage_n(s, give_damage(s, c, damage), damage, n - 1)

\* a kill that waits for hp below 0
KilledBelowZero(s, c) == s # Player /\ c.hp < 0

\* a kill the player does not override
KilledPlayerToo(s, c) == c.hp <= 0

\* Character.kill after give_damage: Sprite.kill leaves every group, Player.kill does nothing
Killed(s, c) == s # Player /\ c.hp <= 0

\* an invincibility timer that keeps falling
TimerNoFloor(tmr, delta_time) == tmr - delta_time

\* line 133: the invincibility timer after an update
TimerAfter(tmr, delta_time) == Max(tmr - delta_time, Recovered)

\* Character.update
CharacterUpdate(c, delta_time) ==
    LET c1 == [c EXCEPT !.invincible_tmr = TimerAfter(@, delta_time)]
    IN  IF DOMAIN c.imgs = {} THEN c1
        ELSE LET idx == MaxKey(DOMAIN c.imgs)
                 c2 == [c1 EXCEPT !.image = c.imgs[idx].img]
             IN  IF ~c.imgs[idx].timed THEN c2
                 ELSE IF c.imgs[idx].t < 0
                      THEN [c2 EXCEPT !.imgs = [p \in (DOMAIN c.imgs) \ {idx} |-> c.imgs[p]]]
                      ELSE [c2 EXCEPT !.imgs[idx].t = @ - delta_time]

\* Rect.move_ip(speed * mv * dtime): the float is truncated to an int
move_ip(r, speed, mv, dt) ==
    <<r[1] + Trunc(speed * mv[1] * dt, TicksPerSec),
      r[2] + Trunc(speed * mv[2] * dt, TicksPerSec)>>

\* the keys of Player.delta in the order the dictionary is walked
KeyOrder == <<"w", "s", "a", "d">>

RECURSIVE MoveKeys(_, _, _, _)
MoveKeys(r, keys, dt, i) ==
    IF i > Len(KeyOrder) THEN r
    ELSE MoveKeys(IF KeyOrder[i] \in keys
                  THEN move_ip(r, PlayerSpeed, delta[KeyOrder[i]], dt) ELSE r,
                  keys, dt, i + 1)

RECURSIVE SumKeys(_, _)
SumKeys(keys, i) ==
    IF i > Len(KeyOrder) THEN <<0, 0>>
    ELSE LET rest == SumKeys(keys, i + 1)
             mv == IF KeyOrder[i] \in keys THEN delta[KeyOrder[i]] ELSE <<0, 0>>
         IN  <<mv[1] + rest[1], mv[2] + rest[2]>>

\* Player.update: the Character fields
PlayerUpdateChr(c, keys, dt) ==
    LET c1 == CharacterUpdate(c, dt)
        sum_mv == SumKeys(keys, 1)
    IN  IF sum_mv # <<0, 0>> THEN set_image(c1, move_imgs[sum_mv], 0, FALSE, 0) ELSE c1

\* a facing direction that follows the key sum even when it is zero
PlayerUpdateDireAlways(d, keys) == SumKeys(keys, 1)

\* Player.update: self.dire
PlayerUpdateDire(d, keys) ==
    LET sum_mv == SumKeys(keys, 1) IN IF sum_mv # <<0, 0>> THEN sum_mv ELSE d

\* Player.update: self.rect
PlayerUpdateRect(r, keys, dt) == MoveKeys(r, keys, dt, 1)


\* calc_orientation divides by the norm of dst - org: it raises ZeroDivisionError
\* exactly when the two points coincide
ZeroNorm(org, dst) == dst[1] - org[1] = 0 /\ dst[2] - org[2] = 0

\* Group_support_camera.draw, first loop: move_ip(-center_pos + size / 2)
DrawShift(r, cam) ==
    <<r[1] + Trunc(2 * (-cam[1]) + WIDTH, 2), r[2] + Trunc(2 * (-cam[2]) + HEIGHT, 2)>>

\* a second loop that moves the sprite back twice as far
DrawRestoreTwice(r, cam) ==
    <<r[1] + 2 * Trunc(2 * cam[1] - WIDTH, 2), r[2] + 2 * Trunc(2 * cam[2] - HEIGHT, 2)>>

\* Group_support_camera.draw, second loop: move_ip(center_pos - size / 2)
DrawRestore(r, cam) ==
    <<r[1] + Trunc(2 * cam[1] - WIDTH, 2), r[2] + Trunc(2 * cam[2] - HEIGHT, 2)>>

\* Group_support_camera.draw: where the members are blitted
DrawnAt(members, rc, cam) == [s \in members |-> DrawShift(rc[s], cam)]

\* Group_support_camera.draw: the rectangles it leaves behind
AfterDraw(members, rc, cam) ==
    [s \in DOMAIN rc |->
        IF s \in members THEN DrawRestore(DrawShift(rc[s], cam), cam) ELSE rc[s]]

\* the lowest free slot of a group (the model's name for a new sprite)
FreeSlot(ids, group) == MinOf(ids \ group)

\* Enemy_Base.get_score
get_score(s) == IF s \in EnemyIds THEN EnemyScore ELSE BossScore

\* issubclass(type(damage_target), Enemy_Base)
IsEnemyBase(s) == s \in EnemyIds \cup BossIds

\* Bullet.attackable_group: the player's bullets aim at enemies, a boss's at the
\* first group of its attack_target, the player group
AttackableGroup(b) == IF b \in BulletIds THEN enemies ELSE player_group

\* a lifespan test that is one update late
ExpiredLate(b) == life_tmr[b] - dtime > BulletLife

\* the test of Bullet.update that ends a bullet's life
Expired(b) == life_tmr[b] > BulletLife

\* the sum of get_score over the targets a bullet has brought to hp <= 0
RECURSIVE ScoreOf(_)
ScoreOf(S) ==
    IF S = {} THEN 0
    ELSE LET s == MinOf(S) IN get_score(s) + ScoreOf(S \ {s})

\* ---------------------------------------------------------------- the loop
Init ==
    /\ pc = "events"
    /\ phase = "Playing"
    /\ frame = 1
    /\ moves = 0
    /\ dtime = 0
    /\ suvivetime = 0
    /\ clk = 0
    /\ enemy_spawn_interval_tmr = 0
    /\ boss_spawn_interval_tmr = 0
    /\ key_lst = {}
    /\ score = 0
    /\ chr = [s \in Characters |->
                IF s = Player
                THEN NewCharacter(move_imgs[<<1, 0>>], PlayerHp, PlayerInvincible)
                ELSE NoCharacter]
    /\ dire = <<1, 0>>
    /\ attack_interval = AttackInterval0
    /\ attack_number = 1
    /\ rect = (Player :> <<0, 0>>)
    /\ center_pos = <<0, 0>>
    /\ player_group = {Player}
    /\ enemies = {}
    /\ boss = {}
    /\ bullets = {}
    /\ flame = {}
    /\ life_tmr = [b \in Shots |-> 0]
    /\ attack_interval_tmr = [b \in BossIds |-> 0]
    /\ todo = {}
    /\ shown = << >>
    /\ calls = 0
    /\ since_damage = PlayerInvincible

\* line 490: the first branch of the tier test
TierOne(sc) == sc >= Tier1Score /\ sc < Tier2Score

\* a tier test that misses the score that is exactly the second threshold
TierTwoAbove(sc) == sc > Tier2Score

\* line 493: the second branch of the tier test
TierTwo(sc) == sc >= Tier2Score

\* lines 476-495: the keys are read and the difficulty tier is read off the score
Events ==
    /\ pc = "events"
    /\ \E keys \in KeySets :
          /\ SumKeys(keys, 1) # <<0, 0>> => moves < MaxMoves
          /\ key_lst' = keys
          /\ moves' = IF SumKeys(keys, 1) # <<0, 0>> THEN moves + 1 ELSE moves
    /\ attack_interval' = IF TierOne(score) \/ TierTwo(score) THEN AttackInterval1
                          ELSE attack_interval
    /\ attack_number' = IF TierTwo(score) THEN 3 ELSE attack_number
    /\ pc' = "spawn"
    /\ UNCHANGED <<phase, frame, dtime, suvivetime, clk, enemy_spawn_interval_tmr,
                   boss_spawn_interval_tmr, score, chr, dire, rect, center_pos,
                   player_group, enemies, boss, bullets, flame, life_tmr,
                   attack_interval_tmr, todo, shown, since_damage>>
    /\ calls' = 0

\* lines 477-479: a QUIT event ends main
Quit ==
    /\ pc = "events"
    /\ pc' = "exit"
    /\ UNCHANGED <<phase, frame, moves, dtime, suvivetime, clk,
                   enemy_spawn_interval_tmr, boss_spawn_interval_tmr, key_lst, score,
                   chr, dire, attack_interval, attack_number, rect, center_pos,
                   player_group, enemies, boss, bullets, flame, life_tmr,
                   attack_interval_tmr, todo, shown, since_damage>>
    /\ calls' = 0

\* the test of line 500
EnemyDue == enemy_spawn_interval_tmr > EnemySpawnInterval

\* a boss test that reads the enemy timer
BossDueByEnemyTimer == enemy_spawn_interval_tmr > BossSpawnInterval

\* the test of line 517
BossDue == boss_spawn_interval_tmr > BossSpawnInterval

\* lines 499-533: the two spawn timers
Spawner ==
    /\ pc = "spawn"
    /\ EnemyDue => EnemyIds \ enemies # {}
    /\ BossDue => BossIds \ boss # {}
    /\ LET e == FreeSlot(EnemyIds, enemies)
           b == FreeSlot(BossIds, boss)
           chr1 == IF EnemyDue
                   THEN [chr EXCEPT ![e] = NewCharacter(Img("zonbi", <<0, 0>>), EnemyHp, 0)]
                   ELSE chr
       IN  /\ enemies' = IF EnemyDue THEN enemies \cup {e} ELSE enemies
           /\ boss' = IF BossDue THEN boss \cup {b} ELSE boss
           /\ chr' = IF BossDue
                     THEN [chr1 EXCEPT ![b] = NewCharacter(Img("alien2", <<0, 0>>), BossHp, 0)]
                     ELSE chr1
           /\ attack_interval_tmr' = IF BossDue
                                     THEN [attack_interval_tmr EXCEPT ![b] = 0]
                                     ELSE attack_interval_tmr
    /\ enemy_spawn_interval_tmr' = (IF EnemyDue THEN 0 ELSE enemy_spawn_interval_tmr) + dtime
    /\ boss_spawn_interval_tmr' = (IF BossDue THEN 0 ELSE boss_spawn_interval_tmr) + dtime
    /\ pc' = "collide"
    /\ UNCHANGED <<phase, frame, moves, dtime, suvivetime, clk, key_lst, score, dire,
                   attack_interval, attack_number, rect, center_pos, player_group,
                   bullets, flame, life_tmr, todo, shown, since_damage>>
    /\ calls' = 0

\* lines 536-547: the three collision passes.
\*   groupcollide(flame, bullets, True, True) removes the boss bullets fs and the
\*   bullets bs1 that overlap; spritecollide(player, enemies) gives one
\*   give_damage(10) per touching enemy; groupcollide(boss, bullets, False, True)
\*   removes the bullets bs2 and gives each boss hit give_damage(10), score_up(40).
\*   A shot that is removed is unreachable: its slot is cleared.
Collisions ==
    /\ pc = "collide"
    /\ \E fs \in SUBSET flame, bs1 \in SUBSET bullets, touching \in SUBSET enemies :
          /\ (fs = {}) <=> (bs1 = {})
          /\ \E hit \in SUBSET boss, bs2 \in SUBSET (bullets \ bs1) :
                /\ (hit = {}) <=> (bs2 = {})
                /\ flame' = flame \ fs
                /\ bullets' = (bullets \ bs1) \ bs2
                /\ chr' = [s \in Characters |->
                              IF s = Player
                              THEN give_damage_n(Player, chr[s], ContactDamage,
                                                 Cardinality(touching))
                              ELSE IF s \in hit
                              THEN give_damage(s, chr[s], BossPassDamage)
                              ELSE chr[s]]
                /\ boss' = boss \ {b \in hit : Killed(b, chr'[b])}
                /\ player_group' =
                      IF touching = {} THEN player_group
                      ELSE player_group \ {s \in player_group : Killed(s, chr'[s])}
                /\ score' = score
                            + BossPassScore * Cardinality({b \in hit : chr'[b].hp <= 0})
                /\ life_tmr' = [b \in Shots |->
                                   IF b \in fs \cup bs1 \cup bs2 THEN 0 ELSE life_tmr[b]]
                /\ calls' = Cardinality(touching)
                /\ since_damage' = IF chr'[Player].hp < chr[Player].hp
                                   THEN 0 ELSE since_damage
    /\ pc' = "check"
    /\ UNCHANGED <<phase, frame, moves, dtime, suvivetime, clk,
                   enemy_spawn_interval_tmr, boss_spawn_interval_tmr, key_lst, dire,
                   attack_interval, attack_number, rect, center_pos,
                   enemies, attack_interval_tmr, todo, shown>>

\* a lose test that lets hp 0 play on
LostBelowZero == chr[Player].hp < 0

\* the test of line 555
Lost == chr[Player].hp <= 0

\* the test of line 569 (gameFlag, read at line 579)
Won == suvivetime >= SurviveLimit

\* a check that looks at the survival time first
VerdictClearFirst == IF Won THEN "GameClear" ELSE IF Lost THEN "GameOver" ELSE phase

\* lines 555-592: the GameOver block returns before the survival time is looked at
Verdict == IF Lost THEN "GameOver" ELSE IF Won THEN "GameClear" ELSE phase

\* lines 555, 569, 579: the win/lose check
Check ==
    /\ pc = "check"
    /\ phase' = Verdict
    /\ pc' = IF Lost \/ Won THEN "final" ELSE "player"
    /\ UNCHANGED <<frame, moves, dtime, suvivetime, clk, enemy_spawn_interval_tmr,
                   boss_spawn_interval_tmr, key_lst, score, chr, dire, attack_interval,
                   attack_number, rect, center_pos, player_group, enemies, boss,
                   bullets, flame, life_tmr, attack_interval_tmr, todo, shown, since_damage>>
    /\ calls' = 0

\* lines 556-567 and 580-592: the overlay image, one player.update, one draw, return
Final ==
    /\ pc = "final"
    /\ chr' = [chr EXCEPT ![Player] =
                  PlayerUpdateChr(change_img(@, IF phase = "GameOver" THEN 8 ELSE 9,
                                             10, OverImgTime), key_lst, dtime)]
    /\ dire' = PlayerUpdateDire(dire, key_lst)
    /\ LET moved == [rect EXCEPT ![Player] = PlayerUpdateRect(@, key_lst, dtime)]
       IN  /\ shown' = DrawnAt(player_group, moved, center_pos)
           /\ rect' = AfterDraw(player_group, moved, center_pos)
    /\ pc' = "exit"
    /\ UNCHANGED <<phase, frame, moves, dtime, suvivetime, clk,
                   enemy_spawn_interval_tmr, boss_spawn_interval_tmr, key_lst, score,
                   attack_interval, attack_number, center_pos, player_group, enemies,
                   boss, bullets, flame, life_tmr, attack_interval_tmr, todo>>
    /\ since_damage' = Min(since_damage + dtime, PlayerInvincible)
    /\ calls' = 0

\* lines 595-598: player.update, then the camera follows the player
PlayerTick ==
    /\ pc = "player"
    /\ chr' = [chr EXCEPT ![Player] = PlayerUpdateChr(@, key_lst, dtime)]
    /\ dire' = PlayerUpdateDire(dire, key_lst)
    /\ rect' = [rect EXCEPT ![Player] = PlayerUpdateRect(@, key_lst, dtime)]
    /\ center_pos' = rect'[Player]
    /\ pc' = "attack"
    /\ UNCHANGED <<phase, frame, moves, dtime, suvivetime, clk,
                   enemy_spawn_interval_tmr, boss_spawn_interval_tmr, key_lst, score,
                   attack_interval, attack_number, player_group, enemies, boss,
                   bullets, flame, life_tmr, attack_interval_tmr, todo, shown>>
    /\ since_damage' = Min(since_damage + dtime, PlayerInvincible)
    /\ calls' = 0

\* the pass of lines 621-625 that follows: boss.update, bullets.update, flame.update,
\* each over the sprites the group holds when the pass starts; then the draws
Goto(stage, bossG, bulletsG, flameG) ==
    IF stage <= 1 /\ bossG # {} THEN pc' = "boss" /\ todo' = bossG
    ELSE IF stage <= 2 /\ bulletsG # {} THEN pc' = "bullets" /\ todo' = bulletsG
    ELSE IF stage <= 3 /\ flameG # {} THEN pc' = "flame" /\ todo' = flameG
    ELSE pc' = "draw" /\ todo' = {}

\* the test of line 601
AttackDue == clk > attack_interval

\* line 606: the point the player aims at, the pointer moved into world coordinates
AimPoint(mouse) ==
    <<Trunc(2 * mouse[1] - WIDTH, 2) + center_pos[1],
      Trunc(2 * mouse[2] - HEIGHT, 2) + center_pos[2]>>

\* lines 610-615: gen_beams makes 3 bullets, otherwise one is made
NewBullets == IF attack_number = 3 THEN 3 ELSE 1

\* the n lowest free slots of a group
RECURSIVE FreeSlots(_, _, _)
FreeSlots(ids, group, n) ==
    IF n = 0 THEN {}
    ELSE LET b == FreeSlot(ids, group) IN {b} \cup FreeSlots(ids, group \cup {b}, n - 1)

\* lines 601-615: the attack on the pointer, up to the call of calc_orientation
AttackAim ==
    /\ pc = "attack"
    /\ AttackDue
    /\ \E mouse \in MouseSet :
          /\ ZeroNorm(rect[Player], AimPoint(mouse))
          /\ clk' = 0
          /\ pc' = "crashed"
    /\ UNCHANGED <<phase, frame, moves, dtime, suvivetime, enemy_spawn_interval_tmr,
                   boss_spawn_interval_tmr, key_lst, score, chr, dire, attack_interval,
                   attack_number, rect, center_pos, player_group, enemies, boss,
                   bullets, flame, life_tmr, attack_interval_tmr, todo, shown, since_damage>>
    /\ calls' = 0

\* lines 601-615: the attack on the pointer
Attack ==
    /\ pc = "attack"
    /\ AttackDue
    /\ Cardinality(BulletIds \ bullets) >= NewBullets
    /\ \E mouse \in MouseSet :
          /\ ~ZeroNorm(rect[Player], AimPoint(mouse))
          /\ LET new == FreeSlots(BulletIds, bullets, NewBullets)
             IN  /\ bullets' = bullets \cup new
                 /\ life_tmr' = [b \in Shots |-> IF b \in new THEN 0 ELSE life_tmr[b]]
          /\ clk' = 0
    /\ pc' = "enemies"
    /\ UNCHANGED <<phase, frame, moves, dtime, suvivetime, enemy_spawn_interval_tmr,
                   boss_spawn_interval_tmr, key_lst, score, chr, dire, attack_interval,
                   attack_number, rect, center_pos, player_group, enemies, boss,
                   flame, attack_interval_tmr, todo, shown, since_damage>>
    /\ calls' = 0

NoAttack ==
    /\ pc = "attack"
    /\ ~AttackDue
    /\ pc' = "enemies"
    /\ UNCHANGED <<phase, frame, moves, dtime, suvivetime, clk,
                   enemy_spawn_interval_tmr, boss_spawn_interval_tmr, key_lst, score,
                   chr, dire, attack_interval, attack_number, rect, center_pos,
                   player_group, enemies, boss, bullets, flame, life_tmr,
                   attack_interval_tmr, todo, shown, since_damage>>
    /\ calls' = 0

\* line 619: Enemy.update of every enemy (the step toward the player is not kept)
EnemiesUpdate ==
    /\ pc = "enemies"
    /\ chr' = [s \in Characters |->
                  IF s \in enemies THEN CharacterUpdate(chr[s], dtime) ELSE chr[s]]
    /\ Goto(1, boss, bullets, flame)
    /\ UNCHANGED <<phase, frame, moves, dtime, suvivetime, clk,
                   enemy_spawn_interval_tmr, boss_spawn_interval_tmr, key_lst, score,
                   dire, attack_interval, attack_number, rect, center_pos,
                   player_group, enemies, boss, bullets, flame, life_tmr,
                   attack_interval_tmr, shown, since_damage>>
    /\ calls' = 0

\* the test of line 389
BossAttackDue(b) == attack_interval_tmr[b] > BossAttackInterval

\* lines 376-384: BOSS.update of one boss that stands within 50 of the player
BossUpdateNear ==
    /\ pc = "boss"
    /\ LET b == MinOf(todo)
       IN  /\ chr' = [chr EXCEPT ![b] = CharacterUpdate(@, dtime)]
           /\ IF todo = {b} THEN Goto(2, boss, bullets, flame)
              ELSE pc' = pc /\ todo' = todo \ {b}
    /\ UNCHANGED <<phase, frame, moves, dtime, suvivetime, clk,
                   enemy_spawn_interval_tmr, boss_spawn_interval_tmr, key_lst, score,
                   dire, attack_interval, attack_number, rect, center_pos,
                   player_group, enemies, boss, bullets, flame, life_tmr,
                   attack_interval_tmr, shown, since_damage>>
    /\ calls' = 0

\* lines 376-393: BOSS.update of one boss that is 50 or more away: it walks, and
\* shoots when its timer is up
BossUpdateFar ==
    /\ pc = "boss"
    /\ LET b == MinOf(todo)
       IN  /\ BossAttackDue(b) => FlameIds \ flame # {}
           /\ chr' = [chr EXCEPT ![b] = CharacterUpdate(@, dtime)]
           /\ LET f == FreeSlot(FlameIds, flame)
              IN  /\ flame' = IF BossAttackDue(b) THEN flame \cup {f} ELSE flame
                  /\ life_tmr' = IF BossAttackDue(b)
                                 THEN [life_tmr EXCEPT ![f] = 0] ELSE life_tmr
           /\ attack_interval_tmr' =
                 [attack_interval_tmr EXCEPT
                     ![b] = (IF BossAttackDue(b) THEN 0 ELSE @) + dtime]
           /\ IF todo = {b} THEN Goto(2, boss, bullets, flame')
              ELSE pc' = pc /\ todo' = todo \ {b}
    /\ UNCHANGED <<phase, frame, moves, dtime, suvivetime, clk,
                   enemy_spawn_interval_tmr, boss_spawn_interval_tmr, key_lst, score,
                   dire, attack_interval, attack_number, rect, center_pos,
                   player_group, enemies, boss, bullets, shown, since_damage>>
    /\ calls' = 0

\* the targets Bullet.update damages: every sprite spritecollide returned
Damaged(hits) == hits

\* line 298: the hit of Bullet.update on one target
Hit(s, c) == give_damage(s, c, BulletDamage)

\* a score_up for every hit, killing or not
ScoredOnHit(hits) == {s \in Damaged(hits) : IsEnemyBase(s)}

\* lines 300-301: the targets Bullet.update calls score_up for
Scored(hits) == {s \in Damaged(hits) : Hit(s, chr[s]).hp <= 0 /\ IsEnemyBase(s)}

\* lines 283-301: Bullet.update of one shot b whose rectangle overlaps hits
ShotUpdate(b, hits) ==
    /\ life_tmr' = [life_tmr EXCEPT ![b] = @ + dtime]
    /\ LET gone == Expired(b) \/ hits # {}
       IN  /\ bullets' = IF gone THEN bullets \ {b} ELSE bullets
           /\ flame' = IF gone THEN flame \ {b} ELSE flame
    /\ chr' = [s \in Characters |->
                  IF s \in Damaged(hits) THEN Hit(s, chr[s]) ELSE chr[s]]
    /\ enemies' = enemies \ {s \in Damaged(hits) : Killed(s, chr'[s])}
    /\ boss' = boss \ {s \in Damaged(hits) : Killed(s, chr'[s])}
    /\ player_group' = player_group \ {s \in Damaged(hits) : Killed(s, chr'[s])}
    /\ score' = score + ScoreOf(Scored(hits))
    /\ calls' = Cardinality(hits \cap {Player})
    /\ since_damage' = IF chr'[Player].hp < chr[Player].hp THEN 0 ELSE since_damage

\* line 623: bullets.update, one bullet
BulletUpdate ==
    /\ pc = "bullets"
    /\ LET b == MinOf(todo)
       IN  /\ \E hits \in SUBSET AttackableGroup(b) : ShotUpdate(b, hits)
           /\ IF todo = {b} THEN Goto(3, boss', bullets', flame')
              ELSE pc' = pc /\ todo' = todo \ {b}
    /\ UNCHANGED <<phase, frame, moves, dtime, suvivetime, clk,
                   enemy_spawn_interval_tmr, boss_spawn_interval_tmr, key_lst, dire,
                   attack_interval, attack_number, rect, center_pos,
                   attack_interval_tmr, shown>>

\* line 625: flame.update, one boss bullet
FlameUpdate ==
    /\ pc = "flame"
    /\ LET b == MinOf(todo)
       IN  /\ \E hits \in SUBSET AttackableGroup(b) : ShotUpdate(b, hits)
           /\ IF todo = {b} THEN Goto(4, boss', bullets', flame')
              ELSE pc' = pc /\ todo' = todo \ {b}
    /\ UNCHANGED <<phase, frame, moves, dtime, suvivetime, clk,
                   enemy_spawn_interval_tmr, boss_spawn_interval_tmr, key_lst, dire,
                   attack_interval, attack_number, rect, center_pos,
                   attack_interval_tmr, shown>>

\* the sprites some group still holds
Live == {Player} \cup enemies \cup boss

\* lines 628-638: the draws (only the player group holds a kept rectangle), then the
\* frame's time is added up and the next frame's is measured.  A sprite that has
\* left every group is unreachable: its slot is cleared.  So is key_lst, which
\* line 476 overwrites before anything reads it.
EndFrame ==
    /\ pc = "draw"
    /\ frame < MaxFrames
    /\ shown' = DrawnAt(player_group, rect, center_pos)
    /\ rect' = AfterDraw(player_group, rect, center_pos)
    /\ suvivetime' = suvivetime + dtime
    /\ clk' = clk + dtime
    /\ \E dt \in DtSet : dtime' = dt
    /\ frame' = frame + 1
    /\ chr' = [s \in Characters |-> IF s \in Live THEN chr[s] ELSE NoCharacter]
    /\ life_tmr' = [b \in Shots |-> IF b \in bullets \cup flame THEN life_tmr[b] ELSE 0]
    /\ attack_interval_tmr' =
          [b \in BossIds |-> IF b \in boss THEN attack_interval_tmr[b] ELSE 0]
    /\ key_lst' = {}
    /\ pc' = "events"
    /\ UNCHANGED <<phase, moves, enemy_spawn_interval_tmr, boss_spawn_interval_tmr,
                   score, dire, attack_interval, attack_number, center_pos,
                   player_group, enemies, boss, bullets, flame, todo, since_damage>>
    /\ calls' = 0

Next ==
    \/ Events \/ Quit \/ Spawner \/ Collisions
    \/ Check \/ Final \/ PlayerTick
    \/ AttackAim \/ Attack \/ NoAttack
    \/ EnemiesUpdate \/ BossUpdateNear \/ BossUpdateFar
    \/ BulletUpdate \/ FlameUpdate
    \/ EndFrame

Spec == Init /\ [][Next]_vars

\* ------------------------------------------------------- a game under way
\* The start of a frame some seconds into a game, the frame before it having
\* taken 0.1 s (MidDt) and fired a bullet: the player is unhurt, or was touched
\* by an enemy in that frame, or is down to its last 10 hp; an enemy and a boss
\* may be there, whole or one hit from death; the bullet may still be in flight;
\* 10 s or the full 60 s are on the survival timer.  Every timer holds what the
\* frame before left in it.
MidDt == MinOf(TickSet)

\* the player after its first update
Fresh ==
    PlayerUpdateChr(NewCharacter(move_imgs[<<1, 0>>], PlayerHp, PlayerInvincible),
                    {}, MidDt)

\* the player touched by an enemy in the frame before
Hurt == PlayerUpdateChr(give_damage(Player, Fresh, ContactDamage), {}, MidDt)

\* the player four hits down, the last of them long ago
Worn == [Fresh EXCEPT !.hp = PlayerHp - 4 * ContactDamage]

\* an enemy or boss that has been updated, with hp left
Foe(image, hp, left) ==
    [CharacterUpdate(NewCharacter(image, hp, 0), MidDt) EXCEPT !.hp = left]

\* scores at the start of a frame: none, and one enemy short of each tier
\* (13 enemies and 2 bosses; 49 enemies)
MidScores == {0, Tier1Score - EnemyScore, Tier2Score - EnemyScore}

InitMid ==
    /\ pc = "events"
    /\ phase = "Playing"
    /\ frame = MaxFrames - MidFrames + 1
    /\ moves = 0
    /\ dtime \in DtSet
    /\ suvivetime \in {10 * TicksPerSec, SurviveLimit}
    /\ clk = MidDt
    /\ enemy_spawn_interval_tmr = MidDt
    /\ boss_spawn_interval_tmr = MidDt
    /\ key_lst = {}
    /\ score \in MidScores
    /\ enemies \in {{}, {MinOf(EnemyIds)}}
    /\ boss \in {{}, {MinOf(BossIds)}}
    /\ bullets \in {{}, {MinOf(BulletIds)}}
    /\ flame = {}
    /\ \E p \in {Fresh, Hurt, Worn}, eh \in {EnemyHp, BulletDamage},
          bh \in {BossHp, BossPassDamage} :
          /\ chr = [s \in Characters |->
                      IF s = Player THEN p
                      ELSE IF s \in enemies THEN Foe(Img("zonbi", <<0, 0>>), EnemyHp, eh)
                      ELSE IF s \in boss THEN Foe(Img("alien2", <<0, 0>>), BossHp, bh)
                      ELSE NoCharacter]
          /\ since_damage = IF p = Hurt THEN MidDt ELSE PlayerInvincible
    /\ dire = <<1, 0>>
    /\ attack_interval = IF score >= Tier1Score THEN AttackInterval1 ELSE AttackInterval0
    /\ attack_number = 1
    /\ rect = (Player :> <<0, 0>>)
    /\ center_pos = <<0, 0>>
    /\ player_group = {Player}
    /\ life_tmr = [b \in Shots |-> IF b \in bullets THEN MidDt ELSE 0]
    /\ attack_interval_tmr = [b \in BossIds |-> IF b \in boss THEN MidDt ELSE 0]
    /\ todo = {}
    /\ shown = (Player :> <<WIDTH \div 2, HEIGHT \div 2>>)
    /\ calls = 0

SpecMid == InitMid /\ [][Next]_vars

\* ------------------------------------------------------- a bullet on its own
\* A bullet of the player with no enemy in reach: every frame calls its update
\* once (line 623); frame counts the calls made.
InitBullet ==
    /\ pc = "bullets"
    /\ phase = "Playing"
    /\ frame = 0
    /\ moves = 0
    /\ dtime \in TickSet
    /\ suvivetime = 0
    /\ clk = 0
    /\ enemy_spawn_interval_tmr = 0
    /\ boss_spawn_interval_tmr = 0
    /\ key_lst = {}
    /\ score = 0
    /\ chr = [s \in Characters |->
                IF s = Player
                THEN NewCharacter(move_imgs[<<1, 0>>], PlayerHp, PlayerInvincible)
                ELSE NoCharacter]
    /\ dire = <<1, 0>>
    /\ attack_interval = AttackInterval0
    /\ attack_number = 1
    /\ rect = (Player :> <<0, 0>>)
    /\ center_pos = <<0, 0>>
    /\ player_group = {Player}
    /\ enemies = {}
    /\ boss = {}
    /\ bullets = {MinOf(BulletIds)}
    /\ flame = {}
    /\ life_tmr = [b \in Shots |-> 0]
    /\ attack_interval_tmr = [b \in BossIds |-> 0]
    /\ todo = bullets
    /\ shown = << >>
    /\ calls = 0
    /\ since_damage = PlayerInvincible

\* line 623 and line 638: one update of the bullet, then the next frame's time
LoneTick ==
    /\ pc = "bullets"
    /\ frame < MaxTicks
    /\ todo \subseteq bullets
    /\ todo # {}
    /\ ShotUpdate(MinOf(todo), {})
    /\ frame' = frame + 1
    /\ \E dt \in TickSet : dtime' = dt
    /\ UNCHANGED <<pc, phase, moves, suvivetime, clk, enemy_spawn_interval_tmr,
                   boss_spawn_interval_tmr, key_lst, dire, attack_interval,
                   attack_number, rect, center_pos,
                   attack_interval_tmr, todo, shown>>

NextBullet == LoneTick

SpecBullet == InitBullet /\ [][NextBullet]_vars

\* ------------------------------------------------------ a draw on its own
\* Group_support_camera.draw of a group of sprites at any of PosSet, seen by a
\* camera at any of CamSet.
InitDraw ==
    /\ pc = "draw"
    /\ phase = "Playing"
    /\ frame = 1
    /\ moves = 0
    /\ dtime = 0
    /\ suvivetime = 0
    /\ clk = 0
    /\ enemy_spawn_interval_tmr = 0
    /\ boss_spawn_interval_tmr = 0
    /\ key_lst = {}
    /\ score = 0
    /\ enemies \in SUBSET EnemyIds
    /\ chr = [s \in Characters |->
                IF s = Player
                THEN NewCharacter(move_imgs[<<1, 0>>], PlayerHp, PlayerInvincible)
                ELSE IF s \in enemies
                THEN NewCharacter(Img("zonbi", <<0, 0>>), EnemyHp, 0)
                ELSE NoCharacter]
    /\ dire = <<1, 0>>
    /\ attack_interval = AttackInterval0
    /\ attack_number = 1
    /\ player_group = {Player}
    /\ rect \in [player_group \cup enemies -> PosSet]
    /\ center_pos \in CamSet
    /\ boss = {}
    /\ bullets = {}
    /\ flame = {}
    /\ life_tmr = [b \in Shots |-> 0]
    /\ attack_interval_tmr = [b \in BossIds |-> 0]
    /\ todo = {}
    /\ shown = << >>
    /\ calls = 0
    /\ since_damage = PlayerInvincible

\* lines 56-78: one draw of the sprites that hold a rectangle
DrawGroup ==
    /\ pc = "draw"
    /\ shown' = DrawnAt(DOMAIN rect, rect, center_pos)
    /\ rect' = AfterDraw(DOMAIN rect, rect, center_pos)
    /\ pc' = "drawn"
    /\ UNCHANGED <<phase, frame, moves, dtime, suvivetime, clk,
                   enemy_spawn_interval_tmr, boss_spawn_interval_tmr, key_lst, score,
                   chr, dire, attack_interval, attack_number, center_pos,
                   player_group, enemies, boss, bullets, flame, life_tmr,
                   attack_interval_tmr, todo, calls, since_damage>>

NextDraw == DrawGroup

SpecDraw == InitDraw /\ [][NextDraw]_vars

\* ------------------------------------------------------------ properties
\* the enemies and bosses a step brings from hp > 0 to hp <= 0
KilledNow == {s \in enemies \cup boss : chr[s].hp > 0 /\ chr'[s].hp <= 0}

\* C1: the score never decreases; a step changes it by exactly the score values
\* of the enemies and bosses whose hp that step brings from > 0 to <= 0, and only
\* a step that applies projectile hits (Bullet.update, or the boss-against-bullets
\* pass of main) changes it; a hit that does not kill adds nothing.
C1_ScoreOnlyByKills ==
    [][/\ score' >= score
       /\ score' = score + EnemyScore * Cardinality(KilledNow \cap EnemyIds)
                         + BossScore * Cardinality(KilledNow \cap BossIds)
       /\ score' # score => pc \in {"bullets", "collide"}]_vars

\* C1 happens: an enemy and a boss have both been killed and scored
C1_Witness == score = EnemyScore + BossScore

C3_OneTargetPerUpdate ==
    [][(pc = "bullets" \/ pc = "flame") =>
          Cardinality({s \in Characters : chr'[s].hp # chr[s].hp}) <= 1]_vars

\* C4 (as claimed): once GameOver or GameClear is entered, the player's position
\* and invincibility timer change no more.
C4_NoTickAfterEnd ==
    [][phase # "Playing" =>
          /\ rect'[Player] = rect[Player]
          /\ chr'[Player].invincible_tmr = chr[Player].invincible_tmr]_vars

\* C5 (as claimed): in a frame that has run its spawner tick, the survival timer
\* is below 60 s.
C5_ClearBeforeSpawner == pc \in {"collide", "check"} => suvivetime < SurviveLimit

\* C6: the phase leaves Playing only in the win/lose check, for GameOver only
\* with player hp <= 0, for GameClear only with 60 s survived; a check that finds
\* either goes to the final draw, and the player tick, the attack and the group
\* updates up to bullets.update run only in Playing with hp > 0 and under 60 s.
C6_LeavesPlayingAtCheck ==
    [][/\ phase' # phase => pc = "check" /\ phase = "Playing"
       /\ phase' # phase /\ phase' = "GameOver" => chr[Player].hp <= 0
       /\ phase' # phase /\ phase' = "GameClear" => suvivetime >= SurviveLimit
       /\ pc = "check" /\ (chr[Player].hp <= 0 \/ suvivetime >= SurviveLimit)
              => pc' = "final" /\ phase' # "Playing"
       /\ pc' \in {"player", "attack", "enemies", "boss", "bullets"}
              => /\ phase' = "Playing"
                 /\ chr'[Player].hp > 0
                 /\ suvivetime' < SurviveLimit]_vars

\* C6 happens: the check has found hp <= 0 and entered GameOver
C6_Witness == phase = "GameOver" /\ pc = "final" /\ chr[Player].hp <= 0

\* C7: a Bullet.update adds dtime to the bullet's life_tmr, and a bullet whose
\* life_tmr was above the lifespan when the update began is in no group after it.
C7_AgeAndExpiry ==
    [][(pc = "bullets" \/ pc = "flame") =>
          LET b == MinOf(todo)
          IN  /\ life_tmr'[b] = life_tmr[b] + dtime
              /\ life_tmr[b] > BulletLife => b \notin bullets' \cup flame']_vars

\* C7 happens: a shot that was older than the lifespan has had its update and
\* is gone
C7_Witness ==
    \E b \in Shots : /\ b \notin bullets \cup flame
                     /\ life_tmr[b] - dtime > BulletLife
                     /\ pc \in {"bullets", "flame", "draw"}

\* C8 (as claimed): a bullet that has had 51 updates of 0.1 s each is gone.
C8_GoneAfter51Ticks ==
    frame = BulletLife + 1 /\ life_tmr[MinOf(BulletIds)] = BulletLife + 1
        => bullets = {}

\* C9 (as claimed): calc_orientation is never reached with two coinciding points.
C9_NoZeroNorm == pc # "crashed"

\* C10: a draw leaves every rectangle as it was, and blits each member at its
\* position - camera centre + half the viewport.
C10_DrawRoundTrip ==
    [][pc = "draw" =>
          /\ rect' = rect
          /\ DOMAIN shown' = DOMAIN rect
          /\ \A s \in DOMAIN rect :
                 /\ 2 * shown'[s][1] = 2 * rect[s][1] - 2 * center_pos[1] + WIDTH
                 /\ 2 * shown'[s][2] = 2 * rect[s][2] - 2 * center_pos[2] + HEIGHT]_vars

\* C10 happens: two sprites away from the origin have been drawn by a camera
\* away from the origin
C10_Witness ==
    /\ pc = "drawn"
    /\ Cardinality(DOMAIN shown) >= 2
    /\ center_pos # <<0, 0>>
    /\ \E s \in DOMAIN shown : rect[s] # <<0, 0>> /\ shown[s] # rect[s]

\* C11 (as claimed): whenever the player group has been drawn, the camera centre
\* was the player's position: the player was blitted at the middle of the window.
C11_CameraOnPlayerAtDraw ==
    Player \in DOMAIN shown => shown[Player] = <<WIDTH \div 2, HEIGHT \div 2>>

\* C12: the spawner step adds one enemy exactly when the enemy timer is above
\* 0.5 s and one boss exactly when the boss timer is above 3 s, never more than
\* one of each; each timer becomes dtime if its own spawn happened and grows by
\* dtime otherwise, whatever the other timer does; no other step adds an enemy or
\* a boss or changes a timer.  The timer is thus the dt added up since the last
\* spawn, and it is above the threshold at every spawn.
C12_SpawnByTimer ==
    [][/\ pc = "spawn" =>
             /\ enemies \subseteq enemies' /\ boss \subseteq boss'
             /\ Cardinality(enemies' \ enemies) =
                   (IF enemy_spawn_interval_tmr > EnemySpawnInterval THEN 1 ELSE 0)
             /\ Cardinality(boss' \ boss) =
                   (IF boss_spawn_interval_tmr > BossSpawnInterval THEN 1 ELSE 0)
             /\ enemy_spawn_interval_tmr' =
                   (IF enemies' # enemies THEN 0 ELSE enemy_spawn_interval_tmr) + dtime
             /\ boss_spawn_interval_tmr' =
                   (IF boss' # boss THEN 0 ELSE boss_spawn_interval_tmr) + dtime
       /\ pc # "spawn" =>
             /\ enemies' \subseteq enemies /\ boss' \subseteq boss
             /\ enemy_spawn_interval_tmr' = enemy_spawn_interval_tmr
             /\ boss_spawn_interval_tmr' = boss_spawn_interval_tmr]_vars

\* C12 happens: an enemy has been spawned in a frame that spawned no boss, and
\* only the enemy timer started again
C12_Witness ==
    /\ pc = "collide"
    /\ \E e \in enemies : chr[e].image = NoImage
    /\ \A b \in boss : chr[b].image # NoImage
    /\ enemy_spawn_interval_tmr = dtime
    /\ boss_spawn_interval_tmr > dtime

\* the image of the highest layer of a table
TopImage(c) == c.imgs[MaxKey(DOMAIN c.imgs)].img

\* C13 (as claimed): after the player's update in a frame without movement keys
\* the displayed image is that of the highest layer left in the table, and every
\* timed layer has lost dtime or has gone.
C13_ShowsTopOfAllLayers ==
    [][(pc = "player" \/ pc = "final") /\ SumKeys(key_lst, 1) = <<0, 0>> =>
          /\ chr'[Player].image = TopImage(chr'[Player])
          /\ \A p \in DOMAIN chr[Player].imgs :
                chr[Player].imgs[p].timed /\ p \in DOMAIN chr'[Player].imgs =>
                   chr'[Player].imgs[p].t = chr[Player].imgs[p].t - dtime]_vars

\* the enemies and bosses that have left their group and still hold their fields
Dead == {s \in (EnemyIds \cup BossIds) \ (enemies \cup boss) : chr[s] # NoCharacter}

\* C14: every member of the enemies group and of the boss group has hp > 0, in
\* every state; an enemy or boss that has left its group has hp <= 0, and no step
\* changes its fields (other than dropping the sprite) or brings it back.
C14_DeadLeaveAtOnce ==
    /\ [](\A s \in enemies \cup boss : chr[s].hp > 0)
    /\ [][\A s \in Dead :
             /\ chr[s].hp <= 0
             /\ chr'[s] = chr[s] \/ chr'[s] = NoCharacter
             /\ s \notin enemies' \cup boss']_vars

\* C14 happens: an enemy and a boss have been killed in one frame and are out of
\* their groups
C14_Witness ==
    /\ \E e \in EnemyIds \ enemies : chr[e] # NoCharacter /\ chr[e].hp <= 0
    /\ \E b \in BossIds \ boss : chr[b] # NoCharacter /\ chr[b].hp <= 0

\* C15: the player is a member of the player group in every state, and a player
\* with hp <= 0 meets the check as GameOver and is drawn by the final draw.
C15_PlayerStaysInGroup ==
    /\ [](Player \in player_group)
    /\ [](pc = "final" /\ chr[Player].hp <= 0 => phase = "GameOver")
    /\ [][pc = "final" => Player \in DOMAIN shown']_vars

\* C15 happens: the player has reached hp <= 0, the session has ended in
\* GameOver and the player is still in its group
C15_Witness ==
    /\ chr[Player].hp <= 0
    /\ phase = "GameOver"
    /\ pc = "exit"
    /\ Player \in player_group

\* C16: attack_interval is 0.2 s and attack_number is 1 while the score is below
\* 500 and 1500; only the tier test of a frame changes either, from 0.2 s to 0.1 s
\* on reading a score of 500 or more and from 1 to 3 on reading 1500 or more, and
\* every tier test that reads such a score leaves the stepped-up value behind.
C16_TiersOnlyStepUp ==
    /\ [](/\ attack_interval \in {AttackInterval0, AttackInterval1}
          /\ attack_number \in {1, 3}
          /\ score < Tier1Score => attack_interval = AttackInterval0
          /\ score < Tier2Score => attack_number = 1)
    /\ [][/\ attack_interval' # attack_interval =>
                /\ pc = "events" /\ score >= Tier1Score
                /\ attack_interval = AttackInterval0 /\ attack_interval' = AttackInterval1
          /\ attack_number' # attack_number =>
                /\ pc = "events" /\ score >= Tier2Score
                /\ attack_number = 1 /\ attack_number' = 3
          /\ pc = "events" /\ pc' = "spawn" /\ score >= Tier1Score =>
                attack_interval' = AttackInterval1
          /\ pc = "events" /\ pc' = "spawn" /\ score >= Tier2Score =>
                attack_number' = 3]_vars

\* C16 happens: the score went from 1470 to 1500, the next tier test raised
\* attack_number, and the attack of that frame made three bullets
C16_Witness ==
    /\ score = Tier2Score
    /\ attack_number = 3
    /\ attack_interval = AttackInterval1
    /\ Cardinality(bullets) = 3

\* C17: the invincibility timer of every sprite lies between -1 s and the
\* sprite's max_invincible_tick in every state; a step that lowers it takes dtime
\* off and stops at -1 s, and a step that raises it also lowers the sprite's hp
\* and leaves the timer at max_invincible_tick.
C17_TimerInRange ==
    /\ [](\A s \in Live : /\ Recovered <= chr[s].invincible_tmr
                          /\ chr[s].invincible_tmr <= chr[s].max_invincible_tick)
    /\ [][\A s \in Live :
             /\ chr'[s].invincible_tmr < chr[s].invincible_tmr /\ chr'[s] # NoCharacter =>
                   /\ chr'[s].invincible_tmr = Max(chr[s].invincible_tmr - dtime, Recovered)
                   /\ chr'[s].hp = chr[s].hp
             /\ chr'[s].invincible_tmr > chr[s].invincible_tmr =>
                   /\ chr'[s].invincible_tmr = chr[s].max_invincible_tick
                   /\ chr'[s].hp < chr[s].hp]_vars

\* C17 happens: the player was hit, and a later update of 30 s has just taken
\* the timer down to the floor
C17_Witness ==
    /\ pc = "attack"
    /\ dtime > PlayerInvincible + TicksPerSec
    /\ chr[Player].hp < PlayerHp
    /\ chr[Player].invincible_tmr = Recovered

\* C18: in every state the layer table of every sprite has a layer of priority 0
\* that has no time limit, and every update of the player leaves an image on
\* display.
C18_BaseLayerStays ==
    /\ [](\A s \in Live : /\ 0 \in DOMAIN chr[s].imgs
                          /\ ~chr[s].imgs[0].timed)
    /\ [][(pc = "player" \/ pc = "final") => chr'[Player].image # NoImage]_vars

\* C18 happens: the player's table holds the base layer, the hurt layer and the
\* layer of the last frame, after the update of that frame
C18_Witness ==
    /\ pc = "exit"
    /\ phase = "GameOver"
    /\ DOMAIN chr[Player].imgs = {0, 5, 10}
    /\ chr[Player].image = Img("fig", <<8, 0>>)

\* One Player.update under every combination of the four movement keys, from
\* every facing direction.

\* line 476: what get_pressed can return for the keys of Player.delta
AllKeySets == SUBSET DOMAIN delta

\* a frame that has reached player.update, the player facing any way
InitKeys ==
    /\ pc = "player"
    /\ phase = "Playing"
    /\ frame = 1
    /\ moves = 0
    /\ dtime \in DtSet
    /\ suvivetime = 0
    /\ clk = 0
    /\ enemy_spawn_interval_tmr = dtime
    /\ boss_spawn_interval_tmr = dtime
    /\ key_lst \in AllKeySets
    /\ score = 0
    /\ dire \in DOMAIN move_imgs
    /\ chr = [s \in Characters |->
                IF s = Player
                THEN NewCharacter(move_imgs[dire], PlayerHp, PlayerInvincible)
                ELSE NoCharacter]
    /\ attack_interval = AttackInterval0
    /\ attack_number = 1
    /\ player_group = {Player}
    /\ rect = (Player :> <<0, 0>>)
    /\ center_pos = <<0, 0>>
    /\ enemies = {}
    /\ boss = {}
    /\ bullets = {}
    /\ flame = {}
    /\ life_tmr = [b \in Shots |-> 0]
    /\ attack_interval_tmr = [b \in BossIds |-> 0]
    /\ todo = {}
    /\ shown = << >>
    /\ calls = 0
    /\ since_damage = PlayerInvincible

NextKeys == PlayerTick

SpecKeys == InitKeys /\ [][NextKeys]_vars

\* C19: the facing direction is always one of the 8 nonzero vectors that have a
\* sprite; a Player.update under keys whose vectors add up to zero leaves it and
\* the base layer alone, and one under any other keys sets it to the sum and the
\* base layer to the sprite of the sum; no other step changes it.
C19_FacingFollowsKeys ==
    /\ [](dire \in DOMAIN move_imgs)
    /\ [][/\ dire' # dire => pc = "player" \/ pc = "final"
          /\ pc = "player" \/ pc = "final" =>
               LET right == IF "d" \in key_lst THEN 1 ELSE 0
                   left == IF "a" \in key_lst THEN 1 ELSE 0
                   down == IF "s" \in key_lst THEN 1 ELSE 0
                   up == IF "w" \in key_lst THEN 1 ELSE 0
                   net == <<right - left, down - up>>
               IN  /\ net = <<0, 0>> =>
                         /\ dire' = dire
                         /\ chr'[Player].imgs[0] = chr[Player].imgs[0]
                   /\ net # <<0, 0>> =>
                         /\ dire' = net
                         /\ chr'[Player].imgs[0] = Layer(move_imgs[net], FALSE, 0)]_vars

\* C19 happens: A and D cancelled under W, the player went up and faces up
C19_Witness ==
    /\ pc = "attack"
    /\ key_lst = {"a", "d", "w"}
    /\ dire = <<0, -1>>
    /\ chr[Player].imgs[0].img = move_imgs[<<0, -1>>]
    /\ rect[Player][1] = 0
    /\ rect[Player][2] < 0

\* C20: a win/lose check that finds the player's hp at or below 0 and the
\* survival time at or over 60 s enters GameOver; GameClear is entered only by a
\* check that finds hp above 0, and the player of a GameClear run has hp above 0.
C20_OverBeatsClear ==
    /\ [](phase = "GameClear" => chr[Player].hp > 0)
    /\ [][/\ pc = "check" /\ chr[Player].hp <= 0 /\ suvivetime >= SurviveLimit =>
                phase' = "GameOver"
          /\ phase' = "GameClear" /\ phase # "GameClear" =>
                pc = "check" /\ chr[Player].hp > 0 /\ suvivetime >= SurviveLimit]_vars

\* C20 happens: the check has just found a dead player after 60 s or more
C20_Witness ==
    /\ pc = "final"
    /\ phase = "GameOver"
    /\ chr[Player].hp <= 0
    /\ suvivetime >= SurviveLimit

\* The last two frames of a session nobody quits: the survival time is one short
\* frame away from 60 s, or has just reached it.

\* a frame start late in the game; the last attack was one or three short frames
\* ago, the last boss came one or eleven short frames ago
InitLate ==
    /\ pc = "events"
    /\ phase = "Playing"
    /\ frame = MaxFrames - MidFrames + 1
    /\ moves = 0
    /\ dtime \in DtSet
    /\ suvivetime \in {SurviveLimit - MinOf(DtSet), SurviveLimit}
    /\ clk \in {MidDt, 3 * MidDt}
    /\ enemy_spawn_interval_tmr = MidDt
    /\ boss_spawn_interval_tmr \in {MidDt, BossAttackInterval + MidDt}
    /\ key_lst = {}
    /\ score = 0
    /\ enemies \in {{}, {MinOf(EnemyIds)}}
    /\ boss \in {{}, {MinOf(BossIds)}}
    /\ bullets \in {{}, {MinOf(BulletIds)}}
    /\ flame = {}
    /\ \E p \in {Fresh, Worn} :
          chr = [s \in Characters |->
                   IF s = Player THEN p
                   ELSE IF s \in enemies THEN Foe(Img("zonbi", <<0, 0>>), EnemyHp, EnemyHp)
                   ELSE IF s \in boss THEN Foe(Img("alien2", <<0, 0>>), BossHp, BossHp)
                   ELSE NoCharacter]
    /\ since_damage = PlayerInvincible
    /\ dire = <<1, 0>>
    /\ attack_interval = AttackInterval0
    /\ attack_number = 1
    /\ rect = (Player :> <<0, 0>>)
    /\ center_pos = <<0, 0>>
    /\ player_group = {Player}
    /\ life_tmr = [b \in Shots |-> IF b \in bullets THEN MidDt ELSE 0]
    /\ attack_interval_tmr =
          [b \in BossIds |-> IF b \in boss THEN boss_spawn_interval_tmr ELSE 0]
    /\ todo = {}
    /\ shown = (Player :> <<WIDTH \div 2, HEIGHT \div 2>>)
    /\ calls = 0

\* lines 475-638 without the return of line 479: no QUIT event arrives
NextLive ==
    \/ Events \/ Spawner \/ Collisions
    \/ Check \/ Final \/ PlayerTick
    \/ AttackAim \/ Attack \/ NoAttack
    \/ EnemiesUpdate \/ BossUpdateNear \/ BossUpdateFar
    \/ BulletUpdate \/ FlameUpdate
    \/ EndFrame

\* the loop of main goes on to its next statement as long as there is one
SpecLive == InitLate /\ [][NextLive]_vars /\ WF_vars(NextLive)

\* C21 (as claimed): with no QUIT event and every dtime above 0, the session
\* leaves phase Playing for GameOver or GameClear; no win/lose check is passed in
\* phase Playing with 60 s or more on the survival clock; and once the phase is
\* left, main returns.
C21_LeavesPlaying ==
    /\ <>(phase # "Playing")
    /\ [](pc = "player" => suvivetime < SurviveLimit)
    /\ (phase # "Playing" ~> pc = "exit")

============================================================================
